---- MODULE Spec2Model ----
(***************************************************************************)
(* Model of the Gottesman-Knill stabilizer backend of blueqat              *)
(* (src/blueqat_gk_backend/__init__.py).                                   *)
(*                                                                         *)
(* A Stabilizer is a record [pauli, sign]; pauli is a function from the    *)
(* qubit index (0-based, as in the source) to a symbol, sign is 1 or -1.   *)
(* The tableau ctx.stabilizers is a function from the row index (0-based)  *)
(* to a Stabilizer.  Python lists of Stabilizer objects built by a         *)
(* comprehension (noncommutatives, xs, the working copy sts) hold          *)
(* references to the rows of the tableau: they are modelled as sequences   *)
(* of row indices, and an in-place update through such a reference is an   *)
(* update of that row of the tableau.                                      *)
(***************************************************************************)
EXTENDS Integers, Sequences, FiniteSets, TLC

VARIABLES stabilizers, measured, status, n_qubits, gates, kwargs, pc, shots, shot,
          counter, snapshots, drawn, lhs, rhs

vars == <<stabilizers, measured, status, n_qubits, gates, kwargs, pc, shots, shot,
          counter, snapshots, drawn, lhs, rhs>>

(***************************************************************************)
(* Bounds of the model.                                                    *)
(***************************************************************************)
\* The qubit counts of the runs on any gate stream: 1 .. MaxQubits.
MaxQubits == 3
\* The Stabilizer rows the gate loops of one such run may visit
\* (gates dispatched times qubits).
MaxRowVisits == 15
\* The lengths of the Stabilizer operands studied on their own: 1 .. MaxLen.
MaxLen == 3

Paulis == {"I", "X", "Y", "Z"}
Signs == {1, -1}
GateNames == {"x", "y", "z", "h", "s", "sdg"}

(***************************************************************************)
(* gk_table: (gate, pauli) -> <<next pauli, sign factor>>.                 *)
(***************************************************************************)
gk_table(gate, pauli) ==
    CASE gate = "x"   /\ pauli = "X" -> <<"X", 1>>
      [] gate = "x"   /\ pauli = "Y" -> <<"Y", -1>>
      [] gate = "x"   /\ pauli = "Z" -> <<"Z", -1>>
      [] gate = "y"   /\ pauli = "X" -> <<"X", -1>>
      [] gate = "y"   /\ pauli = "Y" -> <<"Y", 1>>
      [] gate = "y"   /\ pauli = "Z" -> <<"Z", -1>>
      [] gate = "z"   /\ pauli = "X" -> <<"X", -1>>
      [] gate = "z"   /\ pauli = "Y" -> <<"Y", -1>>
      [] gate = "z"   /\ pauli = "Z" -> <<"Z", 1>>
      [] gate = "h"   /\ pauli = "X" -> <<"Z", 1>>
      [] gate = "h"   /\ pauli = "Y" -> <<"Y", -1>>
      [] gate = "h"   /\ pauli = "Z" -> <<"X", 1>>
      [] gate = "s"   /\ pauli = "X" -> <<"Y", 1>>
      [] gate = "s"   /\ pauli = "Y" -> <<"X", -1>>
      [] gate = "s"   /\ pauli = "Z" -> <<"Z", 1>>
      [] gate = "sdg" /\ pauli = "X" -> <<"Y", -1>>
      [] gate = "sdg" /\ pauli = "Y" -> <<"X", 1>>
      [] gate = "sdg" /\ pauli = "Z" -> <<"Z", 1>>

(***************************************************************************)
(* _mul[lc][rc]: <<product symbol, phase contribution>>.                   *)
(***************************************************************************)
_mul(lc, rc) ==
    CASE lc = "I" /\ rc = "I" -> <<"I", 0>>
      [] lc = "I" /\ rc = "X" -> <<"X", 0>>
      [] lc = "I" /\ rc = "Y" -> <<"Y", 0>>
      [] lc = "I" /\ rc = "Z" -> <<"Z", 0>>
      [] lc = "X" /\ rc = "I" -> <<"X", 0>>
      [] lc = "X" /\ rc = "X" -> <<"I", 0>>
      [] lc = "X" /\ rc = "Y" -> <<"Z", -1>>
      [] lc = "X" /\ rc = "Z" -> <<"Y", 1>>
      [] lc = "Y" /\ rc = "I" -> <<"Y", 0>>
      [] lc = "Y" /\ rc = "X" -> <<"Z", 1>>
      [] lc = "Y" /\ rc = "Y" -> <<"I", 0>>
      [] lc = "Y" /\ rc = "Z" -> <<"X", -1>>
      [] lc = "Z" /\ rc = "I" -> <<"Z", 0>>
      [] lc = "Z" /\ rc = "X" -> <<"Y", -1>>
      [] lc = "Z" /\ rc = "Y" -> <<"X", 1>>
      [] lc = "Z" /\ rc = "Z" -> <<"I", 0>>

(***************************************************************************)
(* class Stabilizer                                                        *)
(***************************************************************************)
Stabilizer(pauli, sign) == [pauli |-> pauli, sign |-> sign]

\* All Stabilizers over n qubits: any symbols, either sign.
AllStabilizers(n) == [pauli : [0 .. n - 1 -> Paulis], sign : Signs]

\* A local name binding, "v = value" of the source: Body is evaluated with
\* the value bound once.
With(value, Body(_)) == Body(value)

RECURSIVE PhaseSum(_, _, _)
\* sum(_mul[lc][rc][1] for lc, rc in zip(self.pauli, other.pauli)), over the
\* positions 0 .. k-1.
PhaseSum(self, other, k) ==
    IF k = 0 THEN 0
    ELSE PhaseSum(self, other, k - 1) + _mul(self.pauli[k - 1], other.pauli[k - 1])[2]

\* __mul_pauli_and_phase with sign = self.sign in place of
\* self.sign * other.sign.
mul_pauli_and_phase_self_sign(self, other) ==
    With(PhaseSum(self, other, Cardinality(DOMAIN self.pauli)), LAMBDA phase :
      [pauli |-> [k \in DOMAIN self.pauli |-> _mul(self.pauli[k], other.pauli[k])[1]],
       sign  |-> IF phase # 0 THEN -self.sign ELSE self.sign,
       phase |-> phase,
       ok    |-> phase \in {-2, 0, 2}])

\* __mul_pauli_and_phase with "sign = -sign" whatever the phase.
mul_pauli_and_phase_always_flip(self, other) ==
    With(PhaseSum(self, other, Cardinality(DOMAIN self.pauli)), LAMBDA phase :
      [pauli |-> [k \in DOMAIN self.pauli |-> _mul(self.pauli[k], other.pauli[k])[1]],
       sign  |-> -(self.sign * other.sign),
       phase |-> phase,
       ok    |-> phase \in {-2, 0, 2}])

\* Stabilizer.__mul_pauli_and_phase.  ok is FALSE where the source's
\* assertion fails (the source then returns no pauli and no sign).
mul_pauli_and_phase(self, other) ==
    With(PhaseSum(self, other, Cardinality(DOMAIN self.pauli)), LAMBDA phase :
      [pauli |-> [k \in DOMAIN self.pauli |-> _mul(self.pauli[k], other.pauli[k])[1]],
       sign  |-> IF phase # 0 THEN -(self.sign * other.sign) ELSE self.sign * other.sign,
       phase |-> phase,
       ok    |-> phase \in {-2, 0, 2}])

\* GottesmanKnillBackend._make_z_stabilizer(n, n_qubits), nq for n_qubits
make_z_stabilizer(n, nq) ==
    Stabilizer([k \in 0 .. nq - 1 |-> IF k = n THEN "Z" ELSE "I"], 1)

(***************************************************************************)
(* Gate conjugator                                                         *)
(***************************************************************************)
\* single_qubit_gate_st with the table entry ('s', 'Y') read as ('X', +1).
single_qubit_gate_st_s_y_plus(lowername, st, idx) ==
    IF st.pauli[idx] # "I"
    THEN With(IF lowername = "s" /\ st.pauli[idx] = "Y" THEN <<"X", 1>>
              ELSE gk_table(lowername, st.pauli[idx]), LAMBDA e :
           Stabilizer([st.pauli EXCEPT ![idx] = e[1]], st.sign * e[2]))
    ELSE st

\* single_qubit_gate_st with the table entry ('s', 'Y') read as ('Z', +1).
single_qubit_gate_st_s_y_to_z(lowername, st, idx) ==
    IF st.pauli[idx] # "I"
    THEN With(IF lowername = "s" /\ st.pauli[idx] = "Y" THEN <<"Z", 1>>
              ELSE gk_table(lowername, st.pauli[idx]), LAMBDA e :
           Stabilizer([st.pauli EXCEPT ![idx] = e[1]], st.sign * e[2]))
    ELSE st

\* single_qubit_gate_st with the x gate keeping every sign.
single_qubit_gate_st_x_plus(lowername, st, idx) ==
    IF st.pauli[idx] # "I"
    THEN With(gk_table(lowername, st.pauli[idx]), LAMBDA e :
           Stabilizer([st.pauli EXCEPT ![idx] = e[1]],
                      IF lowername = "x" THEN st.sign ELSE st.sign * e[2]))
    ELSE st

\* single_qubit_gate_st without the test "st.pauli[idx] != 'I'": I is looked
\* up as Z is.
single_qubit_gate_st_no_test(lowername, st, idx) ==
    With(gk_table(lowername, IF st.pauli[idx] = "I" THEN "Z" ELSE st.pauli[idx]),
         LAMBDA e :
      Stabilizer([st.pauli EXCEPT ![idx] = IF st.pauli[idx] = "I" THEN "I" ELSE e[1]],
                 st.sign * e[2]))

\* The body of _single_qubit_gate's inner loop for one Stabilizer st.
single_qubit_gate_st(lowername, st, idx) ==
    IF st.pauli[idx] # "I"
    THEN With(gk_table(lowername, st.pauli[idx]), LAMBDA e :
           Stabilizer([st.pauli EXCEPT ![idx] = e[1]], st.sign * e[2]))
    ELSE st

RECURSIVE _single_qubit_gate(_, _, _)
\* _single_qubit_gate over the gate's targets (gate.target_iter), in order.
_single_qubit_gate(lowername, targets, sts) ==
    IF targets = <<>> THEN sts
    ELSE _single_qubit_gate(lowername, Tail(targets),
             [k \in DOMAIN sts |-> single_qubit_gate_st(lowername, sts[k], Head(targets))])

\* gate_cx_update without the second update (tpauli in 'YZ').
gate_cx_update_no_z(pauli, c, t, d1, d2) ==
    [pauli |-> [k \in DOMAIN pauli |->
                  IF k = t /\ pauli[c] \in {"X", "Y"} THEN d1[1] ELSE pauli[k]],
     phase |-> 0]

\* The two conditional updates of gate_cx's inner loop: the symbols after
\* them and the accumulated phase.  d1 = _mul['X'][tpauli] and
\* d2 = _mul[cpauli]['Z'] are used only where their branch is taken.
gate_cx_update(pauli, c, t, d1, d2) ==
    [pauli |-> [k \in DOMAIN pauli |->
                  IF k = c /\ pauli[t] \in {"Y", "Z"} THEN d2[1]
                  ELSE IF k = t /\ pauli[c] \in {"X", "Y"} THEN d1[1]
                  ELSE pauli[k]],
     phase |-> (IF pauli[c] \in {"X", "Y"} THEN d1[2] ELSE 0)
               + (IF pauli[t] \in {"Y", "Z"} THEN d2[2] ELSE 0)]

\* gate_cx_st without "if phase != 0: st.sign = -st.sign".
gate_cx_st_no_flip(st, c, t) ==
    With(gate_cx_update(st.pauli, c, t, _mul("X", st.pauli[t]), _mul(st.pauli[c], "Z")),
         LAMBDA u :
      [st    |-> Stabilizer(u.pauli, st.sign),
       phase |-> u.phase,
       ok    |-> u.phase \in {-2, 0, 2}])

\* The body of gate_cx's inner loop for one Stabilizer st.  The symbols are
\* written before the assertion, the sign after it.
gate_cx_st(st, c, t) ==
    With(gate_cx_update(st.pauli, c, t, _mul("X", st.pauli[t]), _mul(st.pauli[c], "Z")),
         LAMBDA u :
      [st    |-> Stabilizer(u.pauli,
                            IF u.phase \in {-2, 2} THEN -st.sign ELSE st.sign),
       phase |-> u.phase,
       ok    |-> u.phase \in {-2, 0, 2}])

RECURSIVE gate_cx_rows(_, _, _, _)
\* for st in sts, from row k on: stops at the first failing assertion.
gate_cx_rows(sts, c, t, k) ==
    IF k \notin DOMAIN sts THEN [sts |-> sts, err |-> "ok"]
    ELSE With(gate_cx_st(sts[k], c, t), LAMBDA r :
           IF r.ok THEN gate_cx_rows([sts EXCEPT ![k] = r.st], c, t, k + 1)
           ELSE [sts |-> [sts EXCEPT ![k] = r.st], err |-> "AssertionError:184"])

RECURSIVE gate_cx(_, _)
\* gate_cx over the gate's (control, target) pairs, in order.
gate_cx(pairs, sts) ==
    IF pairs = <<>> THEN [sts |-> sts, err |-> "ok"]
    ELSE With(gate_cx_rows(sts, Head(pairs)[1], Head(pairs)[2], 0), LAMBDA r :
           IF r.err = "ok" THEN gate_cx(Tail(pairs), r.sts) ELSE r)

(***************************************************************************)
(* Measurement engine                                                      *)
(***************************************************************************)
\* [st for st in rows if st.pauli[i] in syms], as row indices.
rows_with(sts, rows, i, syms) ==
    SelectSeq(rows, LAMBDA k : sts[k].pauli[i] \in syms)

\* range(n_qubits) as a sequence.
range(n) == [k \in 1 .. n |-> k - 1]

\* Stabilizer.__imul__: row k of the tableau becomes row k times row j.
imul(sts, k, j) ==
    With(mul_pauli_and_phase(sts[k], sts[j]), LAMBDA m :
      IF m.ok THEN [sts |-> [sts EXCEPT ![k] = Stabilizer(m.pauli, m.sign)], err |-> "ok"]
      ELSE [sts |-> sts, err |-> "AssertionError:75"])

RECURSIVE imul_each(_, _, _)
\* for st in rest: st *= first
imul_each(sts, rest, first) ==
    IF rest = <<>> THEN [sts |-> sts, err |-> "ok"]
    ELSE With(imul(sts, Head(rest), first), LAMBDA r :
           IF r.err = "ok" THEN imul_each(r.sts, Tail(rest), first) ELSE r)

\* check(sts) of _meas_all_comm: the first row of the list whose pauli is
\* op, as a sequence of at most one row index (empty: None).
check(sts, rows, op) ==
    With(SelectSeq(rows, LAMBDA k : sts[k].pauli = op), LAMBDA hits :
      IF hits = <<>> THEN <<>> ELSE <<Head(hits)>>)

RECURSIVE list_remove(_, _, _)
\* list.remove(x): drops the first element equal to x (dataclass equality:
\* same pauli and same sign).
list_remove(sts, rows, x) ==
    IF rows = <<>> THEN <<>>
    ELSE IF sts[Head(rows)] = sts[x] THEN Tail(rows)
         ELSE <<Head(rows)>> \o list_remove(sts, Tail(rows), x)

\* trans(sts, xs) of _meas_all_comm, on the working list e.work of the
\* tableau e.sts; xs are the rows of the working list with sym at i.
trans(e, i, sym) ==
    IF e.err # "ok" THEN e
    ELSE With(rows_with(e.sts, e.work, i, {sym}), LAMBDA xs :
           IF xs = <<>> THEN e
           ELSE With(imul_each(e.sts, Tail(xs), Head(xs)), LAMBDA r :
                  IF r.err = "ok"
                  THEN [sts |-> r.sts, work |-> list_remove(r.sts, e.work, Head(xs)),
                        err |-> "ok"]
                  ELSE [sts |-> r.sts, work |-> e.work, err |-> r.err]))

RECURSIVE eliminate(_, _, _)
\* for i in range(n_qubits), from i on, skipping idx: X, then Y, then Z.
eliminate(e, idx, i) ==
    IF i \notin DOMAIN e.sts \/ e.err # "ok" THEN e
    ELSE IF i = idx THEN eliminate(e, idx, i + 1)
    ELSE eliminate(trans(trans(trans(e, i, "X"), i, "Y"), i, "Z"), idx, i + 1)

\* The end of _meas_all_comm returning chk.sign == 1.
meas_all_comm_read_plus(e, op) ==
    IF e.err # "ok" THEN [sts |-> e.sts, meas |-> FALSE, err |-> e.err, drawn |-> 0]
    ELSE With(check(e.sts, e.work, op), LAMBDA chk :
           IF chk = <<>>
           THEN [sts |-> e.sts, meas |-> FALSE, err |-> "ValueError:225", drawn |-> 0]
           ELSE [sts |-> e.sts, meas |-> e.sts[chk[1]].sign = 1, err |-> "ok",
                 drawn |-> 0])

\* The end of _meas_all_comm: the second check, on the working list.
meas_all_comm_read(e, op) ==
    IF e.err # "ok" THEN [sts |-> e.sts, meas |-> FALSE, err |-> e.err, drawn |-> 0]
    ELSE With(check(e.sts, e.work, op), LAMBDA chk :
           IF chk = <<>>
           THEN [sts |-> e.sts, meas |-> FALSE, err |-> "ValueError:225", drawn |-> 0]
           ELSE [sts |-> e.sts, meas |-> e.sts[chk[1]].sign = -1, err |-> "ok",
                 drawn |-> 0])

\* _meas_all_comm with the fast path returning chk.sign == 1.
meas_all_comm_plus(idx, sts) ==
    With(make_z_stabilizer(idx, Cardinality(DOMAIN sts)).pauli, LAMBDA op :
      With(check(sts, range(Cardinality(DOMAIN sts)), op), LAMBDA chk :
        IF chk # <<>>
        THEN [sts |-> sts, meas |-> sts[chk[1]].sign = 1, err |-> "ok", drawn |-> 0]
        ELSE meas_all_comm_read(
                 eliminate([sts |-> sts, work |-> range(Cardinality(DOMAIN sts)),
                            err |-> "ok"], idx, 0), op)))

\* _meas_all_comm(idx, stabilizers): [sts, meas, err, drawn]; meas is
\* meaningful only where err = "ok", drawn is the number of calls of
\* random.random().
_meas_all_comm(idx, sts) ==
    With(make_z_stabilizer(idx, Cardinality(DOMAIN sts)).pauli, LAMBDA op :
      With(check(sts, range(Cardinality(DOMAIN sts)), op), LAMBDA chk :
        IF chk # <<>>
        THEN [sts |-> sts, meas |-> sts[chk[1]].sign = -1, err |-> "ok", drawn |-> 0]
        ELSE meas_all_comm_read(
                 eliminate([sts |-> sts, work |-> range(Cardinality(DOMAIN sts)),
                            err |-> "ok"], idx, 0), op)))

\* The threshold of the random draw, in tenths: r < 0.5.
Half == 5
\* The values of random.random() the model draws, in tenths.
RandomDraws == {0, 4, 5, 9}

\* _meas_partial_noncomm without the loop "st *= noncomms[0]".
meas_partial_noncomm_no_imul(idx, noncomms, r, sts) ==
    [sts  |-> [sts EXCEPT ![noncomms[1]] =
                 Stabilizer(make_z_stabilizer(idx,
                                Cardinality(DOMAIN sts[noncomms[1]].pauli)).pauli,
                            IF r < Half THEN 1 ELSE -1)],
     meas |-> ~(r < Half),
     err  |-> "ok",
     drawn |-> 1]

\* _meas_partial_noncomm with the two signs exchanged.
meas_partial_noncomm_signs(idx, noncomms, r, sts) ==
    With(imul_each(sts, Tail(noncomms), Head(noncomms)), LAMBDA m :
      IF m.err # "ok" THEN [sts |-> m.sts, meas |-> FALSE, err |-> m.err, drawn |-> 0]
      ELSE [sts  |-> [m.sts EXCEPT ![noncomms[1]] =
                        Stabilizer(make_z_stabilizer(idx,
                                       Cardinality(DOMAIN sts[noncomms[1]].pauli)).pauli,
                                   IF r < Half THEN -1 ELSE 1)],
            meas |-> ~(r < Half),
            err  |-> "ok",
            drawn |-> 1])

\* _meas_partial_noncomm with noncomms[-1] as the pivot.
meas_partial_noncomm_last_pivot(idx, noncomms, r, sts) ==
    With(imul_each(sts, SubSeq(noncomms, 1, Len(noncomms) - 1), noncomms[Len(noncomms)]),
         LAMBDA m :
      IF m.err # "ok" THEN [sts |-> m.sts, meas |-> FALSE, err |-> m.err, drawn |-> 0]
      ELSE [sts  |-> [m.sts EXCEPT ![noncomms[Len(noncomms)]] =
                        Stabilizer(make_z_stabilizer(idx,
                                       Cardinality(DOMAIN sts[noncomms[1]].pauli)).pauli,
                                   IF r < Half THEN 1 ELSE -1)],
            meas |-> ~(r < Half),
            err  |-> "ok",
            drawn |-> 1])

\* _meas_partial_noncomm(idx, noncomms) with the draw r.
_meas_partial_noncomm(idx, noncomms, r, sts) ==
    With(imul_each(sts, Tail(noncomms), Head(noncomms)), LAMBDA m :
      IF m.err # "ok" THEN [sts |-> m.sts, meas |-> FALSE, err |-> m.err, drawn |-> 0]
      ELSE [sts  |-> [m.sts EXCEPT ![noncomms[1]] =
                        Stabilizer(make_z_stabilizer(idx,
                                       Cardinality(DOMAIN sts[noncomms[1]].pauli)).pauli,
                                   IF r < Half THEN 1 ELSE -1)],
            meas |-> ~(r < Half),
            err  |-> "ok",
            drawn |-> 1])

\* The body of gate_measure's loop for one target idx; r is the value
\* random.random() returns if it is called.
measure_at(idx, r, sts) ==
    With(rows_with(sts, range(Cardinality(DOMAIN sts)), idx, {"X", "Y"}),
         LAMBDA noncommutatives :
      IF noncommutatives # <<>>
      THEN _meas_partial_noncomm(idx, noncommutatives, r, sts)
      ELSE _meas_all_comm(idx, sts))

RECURSIVE gate_measure(_, _, _, _, _)
\* gate_measure over the gate's targets; draws[k] is the random value
\* available to the k-th target, n the calls of random.random() so far.
\* [sts, measured, err, drawn].
gate_measure(targets, draws, sts, meas, n) ==
    IF targets = <<>> THEN [sts |-> sts, measured |-> meas, err |-> "ok", drawn |-> n]
    ELSE With(measure_at(Head(targets), Head(draws), sts), LAMBDA r :
           IF r.err = "ok"
           THEN gate_measure(Tail(targets), Tail(draws), r.sts,
                             [meas EXCEPT ![Head(targets)] = r.meas], n + r.drawn)
           ELSE [sts |-> r.sts, measured |-> meas, err |-> r.err, drawn |-> n + r.drawn])

(***************************************************************************)
(* The state                                                               *)
(*   stabilizers, measured : ctx of the shot in progress                   *)
(*   status  : "ok" in a shot, "run" between the shots of run,             *)
(*             "returned", or the exception that ended the run             *)
(*   n_qubits, gates : the arguments of run (gates is empty where the      *)
(*             gates are chosen one by one)                                *)
(*   kwargs  : the keyword arguments of run, returns and shots, each a     *)
(*             sequence of at most one value (empty: not given); run       *)
(*             replaces returns by the _GKReturnType member, which the     *)
(*             ctx of every shot carries as ctx.returns                    *)
(*   pc      : the gates dispatched in this shot                           *)
(*   shots   : the local shots of run, shot: the shots completed,          *)
(*   counter : the Counter of run, snapshots: its list "stabilizers"       *)
(*   drawn   : the calls of random.random() made in this shot              *)
(*   lhs, rhs: two Stabilizer operands, where the Stabilizer operations    *)
(*             are studied on their own                                    *)
(***************************************************************************)
tableau_vars == <<stabilizers, measured>>
run_vars == <<n_qubits, gates, kwargs, shots, shot, counter, snapshots>>
operand_vars == <<lhs, rhs>>

\* What lhs and rhs hold where no Stabilizer operands are under study.
NoStabilizer == Stabilizer(<<>>, 1)

\* _preprocess_run for nq qubits: the canonical Z generators, nothing
\* measured.
_preprocess_run(nq) ==
    [stabilizers |-> [i \in 0 .. nq - 1 |-> make_z_stabilizer(i, nq)],
     measured    |-> [i \in 0 .. nq - 1 |-> FALSE]]

RECURSIVE bits(_, _)
\* ''.join('1' if b else '0' for b in measured), from position k on.
bits(meas, k) ==
    IF k \notin DOMAIN meas THEN ""
    ELSE (IF meas[k] THEN "1" ELSE "0") \o bits(meas, k + 1)

\* _postprocess_run(ctx): the bit string of ctx.measured for SHOTS, the
\* tableau otherwise.
_postprocess_run(rettype, sts, meas) ==
    IF rettype = "SHOTS" THEN bits(meas, 0) ELSE sts

\* counter[result] = 1 in place of counter[result] += 1
counter_set(cnt, result) ==
    [key \in DOMAIN cnt \cup {result} |-> IF key = result THEN 1 ELSE cnt[key]]

\* counter[result] += 1
counter_add(cnt, result) ==
    [key \in DOMAIN cnt \cup {result} |->
        (IF key \in DOMAIN cnt THEN cnt[key] ELSE 0) + (IF key = result THEN 1 ELSE 0)]

\* Counter()
EmptyCounter == [key \in {} |-> 0]

(***************************************************************************)
(* Spec: one shot of the backend on any gate stream, the gates chosen one  *)
(* by one.                                                                 *)
(***************************************************************************)
Init ==
    /\ n_qubits \in 1 .. MaxQubits
    /\ stabilizers = _preprocess_run(n_qubits).stabilizers
    /\ measured = _preprocess_run(n_qubits).measured
    /\ status = "ok"
    /\ gates = <<>>
    /\ kwargs = [returns |-> <<"SHOTS">>, shots |-> <<1>>]
    /\ pc = 0
    /\ shots = 1
    /\ shot = 0
    /\ counter = EmptyCounter
    /\ snapshots = <<>>
    /\ drawn = 0
    /\ lhs = NoStabilizer
    /\ rhs = NoStabilizer

\* The run takes another gate: no exception so far, and the budget of
\* Stabilizer rows the gate loops may visit is not spent.
CanDispatch == status = "ok" /\ (pc + 1) * Cardinality(DOMAIN stabilizers) <= MaxRowVisits

\* A single-qubit gate with one target.
Single(lowername) ==
    /\ \E idx \in DOMAIN stabilizers :
          stabilizers' = _single_qubit_gate(lowername, <<idx>>, stabilizers)
    /\ pc' = pc + 1
    /\ UNCHANGED <<measured, status, run_vars, drawn, operand_vars>>

GateX == CanDispatch /\ Single("x")
GateY == CanDispatch /\ Single("y")
GateZ == CanDispatch /\ Single("z")
GateH == CanDispatch /\ Single("h")
GateS == CanDispatch /\ Single("s")
GateSdg == CanDispatch /\ Single("sdg")

\* A cx gate with one (control, target) pair.
GateCx ==
    /\ CanDispatch
    /\ \E c \in DOMAIN stabilizers, t \in DOMAIN stabilizers :
          /\ c # t
          /\ With(gate_cx(<<<<c, t>>>>, stabilizers), LAMBDA r :
                  stabilizers' = r.sts /\ status' = r.err)
    /\ pc' = pc + 1
    /\ UNCHANGED <<measured, run_vars, drawn, operand_vars>>

\* A measurement of one target, with the random draw r.
GateMeasure ==
    /\ CanDispatch
    /\ \E idx \in DOMAIN stabilizers, r \in RandomDraws :
          With(gate_measure(<<idx>>, <<r>>, stabilizers, measured, drawn), LAMBDA m :
            /\ stabilizers' = m.sts
            /\ measured' = m.measured
            /\ status' = m.err
            /\ drawn' = m.drawn)
    /\ pc' = pc + 1
    /\ UNCHANGED <<run_vars, operand_vars>>

Next ==
    \/ GateX
    \/ GateY
    \/ GateZ
    \/ GateH
    \/ GateS
    \/ GateSdg
    \/ GateCx
    \/ GateMeasure

Spec == Init /\ [][Next]_vars

(***************************************************************************)
(* SpecCircuits: run(gates, n_qubits, shots = k) on the circuits of        *)
(* __main__.py and of the test scenarios, shot by shot and gate by gate.   *)
(***************************************************************************)
Gate(lowername, targets) == [lowername |-> lowername, targets |-> targets]
Circuit(n, gs) == [n_qubits |-> n, gates |-> gs]

\* Circuit().h[0].cx[0, 1].cx[0, 2].m[:]
GHZDemo ==
    Circuit(3, <<Gate("h", <<0>>), Gate("cx", <<<<0, 1>>>>), Gate("cx", <<<<0, 2>>>>),
                 Gate("measure", range(3))>>)

\* H(0), CX(0,1), CX(0,2), measure(0), measure(1), measure(2)
GHZScenario ==
    Circuit(3, <<Gate("h", <<0>>), Gate("cx", <<<<0, 1>>>>), Gate("cx", <<<<0, 2>>>>),
                 Gate("measure", <<0>>), Gate("measure", <<1>>), Gate("measure", <<2>>)>>)

\* Circuit().h[:].h[1].cx[0, 1].h[1].h[:].x[:].h[1].cx[0, 1].h[1].x[:].h[:].m[:]
GroverDemo ==
    Circuit(2, <<Gate("h", range(2)), Gate("h", <<1>>), Gate("cx", <<<<0, 1>>>>),
                 Gate("h", <<1>>), Gate("h", range(2)), Gate("x", range(2)),
                 Gate("h", <<1>>), Gate("cx", <<<<0, 1>>>>), Gate("h", <<1>>),
                 Gate("x", range(2)), Gate("h", range(2)), Gate("measure", range(2))>>)

\* make_circuit(n) of __main__.py
make_circuit(n) ==
    Circuit(n, <<Gate("h", range(n))>>
               \o [i \in 1 .. n - 1 |-> Gate("cx", <<<<i - 1, i>>>>)]
               \o <<Gate("y", range(n))>>
               \o [i \in 1 .. n - 1 |-> Gate("cx", <<<<i, i - 1>>>>)]
               \o <<Gate("h", range(n)), Gate("measure", range(n))>>)

\* no gates, measure(0), on one qubit
IdentityScenario == Circuit(1, <<Gate("measure", <<0>>)>>)

\* X(0), measure(0), on one qubit
FlipScenario == Circuit(1, <<Gate("x", <<0>>), Gate("measure", <<0>>)>>)

\* A 4-qubit Clifford circuit: cx[0,1].h[0].cx[0,1].cx[0,2].cx[3,0].cx[2,3].m[0]
FourQubitCircuit ==
    Circuit(4, <<Gate("cx", <<<<0, 1>>>>), Gate("h", <<0>>), Gate("cx", <<<<0, 1>>>>),
                 Gate("cx", <<<<0, 2>>>>), Gate("cx", <<<<3, 0>>>>), Gate("cx", <<<<2, 3>>>>),
                 Gate("measure", <<0>>)>>)

\* The largest make_circuit(n) run.
MaxChain == 4
\* The shots asked for: 1 .. MaxShots.
MaxShots == 2

Circuits ==
    {GHZDemo, GHZScenario, GroverDemo, IdentityScenario, FlipScenario, FourQubitCircuit}
    \cup {make_circuit(n) : n \in 2 .. MaxChain}

\* kwargs.get('shots', 100) and kwargs.get('shots', 1)
DefaultShots == 100
DefaultSnapshots == 1

\* The keyword arguments run is called with: returns absent, 'shots',
\* 'stabilizers' or a value run does not know; shots absent or 1 .. MaxShots.
Kwargs ==
    [returns : {<<>>, <<"shots">>, <<"stabilizers">>, <<"statevector">>},
     shots   : {<<>>} \cup {<<k>> : k \in 1 .. MaxShots}]

\* kwargs.get(key, default)
kwargs_get(value, default) == IF value = <<>> THEN default ELSE value[1]

\* run is called: nothing of its body has executed.
InitCircuits ==
    /\ \E c \in Circuits : n_qubits = c.n_qubits /\ gates = c.gates
    /\ kwargs \in Kwargs
    /\ shots = 0
    /\ shot = 0
    /\ counter = EmptyCounter
    /\ snapshots = <<>>
    /\ status = "called"
    /\ stabilizers = <<>>
    /\ measured = <<>>
    /\ pc = 0
    /\ drawn = 0
    /\ lhs = NoStabilizer
    /\ rhs = NoStabilizer

\* The head of run without the else branch: a returns value that is not
\* 'shots' is taken as 'stabilizers' would be, and left as it is in kwargs.
ConfigureNoCheck ==
    /\ status = "called"
    /\ With(kwargs_get(kwargs.returns, "shots"), LAMBDA returns :
         IF returns = "shots"
         THEN /\ shots' = kwargs_get(kwargs.shots, DefaultShots)
              /\ kwargs' = [kwargs EXCEPT !.returns = <<"SHOTS">>]
         ELSE /\ shots' = kwargs_get(kwargs.shots, DefaultSnapshots)
              /\ kwargs' = IF returns = "stabilizers"
                           THEN [kwargs EXCEPT !.returns = <<"STABILIZERS">>]
                           ELSE kwargs)
    /\ status' = "run"
    /\ counter' = EmptyCounter
    /\ snapshots' = <<>>
    /\ UNCHANGED <<tableau_vars, n_qubits, gates, pc, shot, drawn, operand_vars>>

\* The head of run, up to the shot loop: the return type and the number of
\* shots, or ValueError('Unknown return type.').
Configure ==
    /\ status = "called"
    /\ With(kwargs_get(kwargs.returns, "shots"), LAMBDA returns :
         IF returns = "shots"
         THEN /\ shots' = kwargs_get(kwargs.shots, DefaultShots)
              /\ kwargs' = [kwargs EXCEPT !.returns = <<"SHOTS">>]
              /\ counter' = EmptyCounter /\ snapshots' = <<>>
              /\ status' = "run"
         ELSE IF returns = "stabilizers"
         THEN /\ shots' = kwargs_get(kwargs.shots, DefaultSnapshots)
              /\ kwargs' = [kwargs EXCEPT !.returns = <<"STABILIZERS">>]
              /\ counter' = EmptyCounter /\ snapshots' = <<>>
              /\ status' = "run"
         ELSE /\ status' = "ValueError:136"
              /\ UNCHANGED <<shots, kwargs, counter, snapshots>>)
    /\ UNCHANGED <<tableau_vars, n_qubits, gates, pc, shot, drawn, operand_vars>>

\* for _ in range(shots): _run starts with _preprocess_run.
StartShot ==
    /\ status = "run"
    /\ shot < shots
    /\ stabilizers' = _preprocess_run(n_qubits).stabilizers
    /\ measured' = _preprocess_run(n_qubits).measured
    /\ pc' = 0
    /\ drawn' = 0
    /\ status' = "ok"
    /\ UNCHANGED <<run_vars, operand_vars>>

\* The next gate of the list is due, and is of one of these kinds.
Due(kinds) == status = "ok" /\ pc < Len(gates) /\ gates[pc + 1].lowername \in kinds

RunSingle ==
    /\ Due(GateNames)
    /\ stabilizers' = _single_qubit_gate(gates[pc + 1].lowername, gates[pc + 1].targets,
                                         stabilizers)
    /\ pc' = pc + 1
    /\ UNCHANGED <<measured, status, run_vars, drawn, operand_vars>>

RunCx ==
    /\ Due({"cx"})
    /\ With(gate_cx(gates[pc + 1].targets, stabilizers), LAMBDA r :
            stabilizers' = r.sts /\ status' = r.err)
    /\ pc' = pc + 1
    /\ UNCHANGED <<measured, run_vars, drawn, operand_vars>>

RunMeasure ==
    /\ Due({"measure"})
    /\ \E draws \in [1 .. Len(gates[pc + 1].targets) -> RandomDraws] :
          With(gate_measure(gates[pc + 1].targets, draws, stabilizers, measured, drawn),
               LAMBDA m :
            /\ stabilizers' = m.sts
            /\ measured' = m.measured
            /\ status' = m.err
            /\ drawn' = m.drawn)
    /\ pc' = pc + 1
    /\ UNCHANGED <<run_vars, operand_vars>>

\* _run returns _postprocess_run(ctx); counter[result] += 1 or
\* stabilizers.append(result).  The ctx of the shot is dropped.
EndShot ==
    /\ status = "ok"
    /\ pc = Len(gates)
    /\ With(_postprocess_run(kwargs.returns[1], stabilizers, measured), LAMBDA result :
         IF kwargs.returns[1] = "SHOTS"
         THEN counter' = counter_add(counter, result) /\ snapshots' = snapshots
         ELSE snapshots' = Append(snapshots, result) /\ counter' = counter)
    /\ shot' = shot + 1
    /\ status' = "run"
    /\ stabilizers' = <<>>
    /\ measured' = <<>>
    /\ UNCHANGED <<n_qubits, gates, kwargs, shots, pc, drawn, operand_vars>>

\* return counter, or return stabilizers
Return ==
    /\ status = "run"
    /\ shot = shots
    /\ status' = "returned"
    /\ UNCHANGED <<tableau_vars, run_vars, pc, drawn, operand_vars>>

\* What run returns, in the state where it has returned.
run_result == IF kwargs.returns[1] = "SHOTS" THEN counter ELSE snapshots

NextCircuits ==
    \/ Configure
    \/ StartShot
    \/ RunSingle
    \/ RunCx
    \/ RunMeasure
    \/ EndShot
    \/ Return

SpecCircuits == InitCircuits /\ [][NextCircuits]_vars

(***************************************************************************)
(* SpecStabilizer: the Stabilizer operations on their own, on any two      *)
(* operands of the same length.                                            *)
(***************************************************************************)
InitStabilizer ==
    /\ n_qubits \in 1 .. MaxLen
    /\ lhs \in AllStabilizers(n_qubits)
    /\ rhs \in AllStabilizers(n_qubits)
    /\ status = "ok"
    /\ stabilizers = <<>>
    /\ measured = <<>>
    /\ gates = <<>>
    /\ pc = 0
    /\ kwargs = [returns |-> <<>>, shots |-> <<>>]
    /\ shots = 0
    /\ shot = 0
    /\ counter = EmptyCounter
    /\ snapshots = <<>>
    /\ drawn = 0

\* The number of operations applied to the operands in one behaviour.
MaxOps == 1

\* In this specification gates is the log of the operations applied so far.
CanApply == status = "ok" /\ Len(gates) < MaxOps

\* lhs *= rhs
Imul ==
    /\ CanApply
    /\ With(mul_pauli_and_phase(lhs, rhs), LAMBDA m :
         IF m.ok THEN lhs' = Stabilizer(m.pauli, m.sign) /\ status' = "ok"
         ELSE lhs' = lhs /\ status' = "AssertionError:75")
    /\ gates' = Append(gates, Gate("imul", <<>>))
    /\ UNCHANGED <<tableau_vars, n_qubits, kwargs, shots, shot, counter, snapshots, drawn,
                 pc, rhs>>

\* The single-qubit gate update of lhs at one index.
ConjugateSingle ==
    /\ CanApply
    /\ \E lowername \in GateNames, idx \in DOMAIN lhs.pauli :
          /\ lhs' = single_qubit_gate_st(lowername, lhs, idx)
          /\ gates' = Append(gates, Gate(lowername, <<idx>>))
    /\ UNCHANGED <<tableau_vars, status, n_qubits, kwargs, shots, shot, counter, snapshots,
                 drawn, pc, rhs>>

\* The cx update of lhs for one (control, target) pair.
ConjugateCx ==
    /\ CanApply
    /\ \E c \in DOMAIN lhs.pauli, t \in DOMAIN lhs.pauli :
          /\ c # t
          /\ With(gate_cx_st(lhs, c, t), LAMBDA r :
               /\ lhs' = r.st
               /\ status' = IF r.ok THEN "ok" ELSE "AssertionError:184")
          /\ gates' = Append(gates, Gate("cx", <<c, t>>))
    /\ UNCHANGED <<tableau_vars, n_qubits, kwargs, shots, shot, counter, snapshots, drawn,
                 pc, rhs>>

NextStabilizer ==
    \/ Imul
    \/ ConjugateSingle
    \/ ConjugateCx

SpecStabilizer == InitStabilizer /\ [][NextStabilizer]_vars

(***************************************************************************)
(* Notions the properties are stated with                                  *)
(***************************************************************************)
\* The exceptions that end a run.
Failures == {"AssertionError:75", "AssertionError:184", "ValueError:225"}

\* The binary (x, z) form of a symbol: X = (1,0), Z = (0,1), Y = (1,1).
XBit(p) == p \in {"X", "Y"}
ZBit(p) == p \in {"Z", "Y"}
Odd(S) == Cardinality(S) % 2 = 1

\* Two Pauli strings commute iff they anticommute at an even number of
\* positions.
Commute(a, b) ==
    ~Odd({k \in DOMAIN a.pauli :
             a.pauli[k] # "I" /\ b.pauli[k] # "I" /\ a.pauli[k] # b.pauli[k]})

\* The rows are linearly independent as Pauli strings: the product of no
\* non-empty subset of them is the all-I string.
Independent(sts) ==
    \A S \in SUBSET (DOMAIN sts) :
        S # {} =>
          \E k \in DOMAIN sts :
             \/ Odd({j \in S : XBit(sts[j].pauli[k])})
             \/ Odd({j \in S : ZBit(sts[j].pauli[k])})

\* A valid stabilizer generating set.
ValidTableau(sts) ==
    /\ \A j \in DOMAIN sts :
          /\ sts[j].sign \in {1, -1}
          /\ DOMAIN sts[j].pauli = DOMAIN sts
          /\ \A k \in DOMAIN sts : sts[j].pauli[k] \in Paulis
    /\ \A i \in DOMAIN sts, j \in DOMAIN sts : Commute(sts[i], sts[j])
    /\ Independent(sts)

\* Some row of the tableau is the canonical Z-at-idx pattern with this sign.
HasZRow(sts, idx, sign) ==
    \E j \in DOMAIN sts : sts[j] = Stabilizer(make_z_stabilizer(idx, Cardinality(DOMAIN sts)).pauli, sign)

(***************************************************************************)
(* C1.  Measuring a qubit at which no generator holds X or Y completes     *)
(* without error on every tableau reachable from the canonical generators: *)
(* the 'Backend is buggy' ValueError of _meas_all_comm is never raised.    *)
(* Violated by the source.                                                 *)
(***************************************************************************)
C1_NeverBuggy == status # "ValueError:225"

(***************************************************************************)
(* C2.  The phase sum of every combine the backend performs on a reachable *)
(* tableau is in {-2, 0, 2}: the assertion of __mul_pauli_and_phase never  *)
(* fails.  Violated by the source on 4 qubits.                             *)
(***************************************************************************)
C2_PhaseAssertionHolds == status # "AssertionError:75"

(***************************************************************************)
(* C3.  Tableau invariant: after every gate and every measurement that     *)
(* completes, the tableau holds exactly n Stabilizers with sign +1 or -1   *)
(* that commute pairwise and are linearly independent.                     *)
(***************************************************************************)
C3_TableauInvariant ==
    status = "ok" =>
       /\ Cardinality(DOMAIN stabilizers) = n_qubits
       /\ DOMAIN stabilizers = 0 .. n_qubits - 1
       /\ ValidTableau(stabilizers)

\* Three qubits, two of them measured as 1 in a collapse that left an
\* entangled row behind.
C3_Witness ==
    /\ status = "ok"
    /\ n_qubits = 3
    /\ measured[0] /\ measured[1]
    /\ \E j \in DOMAIN stabilizers :
          Cardinality({k \in DOMAIN stabilizers : stabilizers[j].pauli[k] # "I"}) = 3

(***************************************************************************)
(* C4.  Determinism after collapse: whenever a measurement of qubit idx    *)
(* completes on a reachable tableau (either path, any draw), measuring idx *)
(* again at once completes and returns the same boolean, for any draw.     *)
(***************************************************************************)
C4_MeasureTwiceSame ==
    status = "ok" =>
       \A idx \in DOMAIN stabilizers, r1 \in RandomDraws :
          With(measure_at(idx, r1, stabilizers), LAMBDA m1 :
            m1.err = "ok" =>
               \A r2 \in RandomDraws :
                  With(measure_at(idx, r2, m1.sts), LAMBDA m2 :
                    m2.err = "ok" /\ m2.meas = m1.meas))

\* Three gates into a 3-qubit run, row 0 is -Z_2: the third gate was a
\* measurement of qubit 2 that collapsed an entangled row 0 to the outcome 1.
C4_Witness ==
    /\ status = "ok"
    /\ n_qubits = 3
    /\ pc = 3
    /\ measured[2]
    /\ stabilizers[0] = Stabilizer(make_z_stabilizer(2, 3).pauli, -1)
    /\ measure_at(2, 0, stabilizers).meas

(***************************************************************************)
(* C5.  GHZ scenario: H(0), CX(0,1), CX(0,2), measure(0), measure(1),      *)
(* measure(2) on 3 qubits never fails, and every bit string it counts is   *)
(* "000" or "111".  (That both are counted is the witness.)                *)
(***************************************************************************)
C5_GHZ ==
    gates = GHZScenario.gates =>
       /\ status \notin Failures
       /\ DOMAIN counter \subseteq {"000", "111"}

C5_Witness ==
    /\ gates = GHZScenario.gates
    /\ status = "returned"
    /\ DOMAIN counter = {"000", "111"}

(***************************************************************************)
(* C6.  gate_cx is CNOT conjugation: for every Stabilizer and every pair   *)
(* control # target, the update yields the symbols and sign of CNOT.P.CNOT *)
(* (in binary form: x_t ^= x_c, z_c ^= z_t, sign flipped iff               *)
(* x_c z_t (x_t xor z_c xor 1)), the sign flips exactly for X(x)Z and      *)
(* Y(x)Y, the accumulated phase is in {-2, 0, 2}, and a second application *)
(* restores the Stabilizer.                                                *)
(***************************************************************************)
Symbol(x, z) == IF x /\ z THEN "Y" ELSE IF x THEN "X" ELSE IF z THEN "Z" ELSE "I"

CnotConjugation(st, c, t) ==
    LET xc == XBit(st.pauli[c])
        zc == ZBit(st.pauli[c])
        xt == XBit(st.pauli[t])
        zt == ZBit(st.pauli[t])
    IN Stabilizer([st.pauli EXCEPT ![c] = Symbol(xc, zc # zt), ![t] = Symbol(xt # xc, zt)],
                  IF xc /\ zt /\ (xt = zc) THEN -st.sign ELSE st.sign)

C6_CxIsCnot ==
    \A c \in DOMAIN lhs.pauli, t \in DOMAIN lhs.pauli :
       c # t =>
         With(gate_cx_st(lhs, c, t), LAMBDA r :
           /\ r.ok
           /\ r.phase \in {-2, 0, 2}
           /\ r.st = CnotConjugation(lhs, c, t)
           /\ (r.st.sign # lhs.sign) <=>
                 (<<lhs.pauli[c], lhs.pauli[t]>> \in {<<"X", "Z">>, <<"Y", "Y">>})
           /\ gate_cx_st(r.st, c, t).ok
           /\ gate_cx_st(r.st, c, t).st = lhs)

\* cx[0, 1] has just turned -Y(x)Y into +X(x)Z, and would turn it back.
C6_Witness ==
    /\ n_qubits = 2
    /\ gates = <<Gate("cx", <<0, 1>>)>>
    /\ lhs = Stabilizer((0 :> "X") @@ (1 :> "Z"), 1)
    /\ gate_cx_st(lhs, 0, 1).st = Stabilizer((0 :> "Y") @@ (1 :> "Y"), -1)

(***************************************************************************)
(* C7.  The single-qubit gates use the textbook conjugation table: H maps  *)
(* X->Z, Z->X, Y->-Y; S maps X->Y, Y->-X, Z->Z; S-adjoint maps X->-Y,      *)
(* Y->X, Z->Z; x, y, z keep every symbol, with sign +1 on their own axis   *)
(* and -1 on the other two.                                                *)
(***************************************************************************)
Textbook(gate, p) ==
    CASE gate = "h"   -> IF p = "X" THEN <<"Z", 1>> ELSE IF p = "Z" THEN <<"X", 1>>
                         ELSE <<"Y", -1>>
      [] gate = "s"   -> IF p = "X" THEN <<"Y", 1>> ELSE IF p = "Y" THEN <<"X", -1>>
                         ELSE <<"Z", 1>>
      [] gate = "sdg" -> IF p = "X" THEN <<"Y", -1>> ELSE IF p = "Y" THEN <<"X", 1>>
                         ELSE <<"Z", 1>>
      [] gate = "x"   -> <<p, IF p = "X" THEN 1 ELSE -1>>
      [] gate = "y"   -> <<p, IF p = "Y" THEN 1 ELSE -1>>
      [] gate = "z"   -> <<p, IF p = "Z" THEN 1 ELSE -1>>

C7_TextbookTable ==
    \A lowername \in GateNames, idx \in DOMAIN lhs.pauli :
       lhs.pauli[idx] # "I" =>
          single_qubit_gate_st(lowername, lhs, idx)
            = Stabilizer([lhs.pauli EXCEPT ![idx] = Textbook(lowername, lhs.pauli[idx])[1]],
                         lhs.sign * Textbook(lowername, lhs.pauli[idx])[2])

\* sdg on qubit 1 of three has just produced -Y there (from +X), which s
\* turns into +X and h into +Y.
C7_Witness ==
    /\ n_qubits = 3
    /\ gates = <<Gate("sdg", <<1>>)>>
    /\ lhs = Stabilizer((0 :> "I") @@ (1 :> "Y") @@ (2 :> "I"), -1)
    /\ single_qubit_gate_st("s", lhs, 1).pauli[1] = "X"
    /\ single_qubit_gate_st("s", lhs, 1).sign = 1
    /\ single_qubit_gate_st("h", lhs, 1) = Stabilizer(lhs.pauli, 1)

(***************************************************************************)
(* C8.  Four applications of s to the same qubit restore every Stabilizer  *)
(* (symbols and sign), and so does s followed by sdg.                      *)
(***************************************************************************)
ApplyS(st, idx) == single_qubit_gate_st("s", st, idx)
ApplySdg(st, idx) == single_qubit_gate_st("sdg", st, idx)

C8_SFourTimes ==
    \A idx \in DOMAIN lhs.pauli :
       /\ ApplyS(ApplyS(ApplyS(ApplyS(lhs, idx), idx), idx), idx) = lhs
       /\ ApplySdg(ApplyS(lhs, idx), idx) = lhs

\* s on qubit 0 has just produced -XZ (from +YZ): one more s gives -YZ, two
\* more give +XZ, so fewer than four applications do not restore it.
C8_Witness ==
    /\ gates = <<Gate("s", <<0>>)>>
    /\ lhs = Stabilizer((0 :> "X") @@ (1 :> "Z"), -1)
    /\ ApplyS(lhs, 0) = Stabilizer((0 :> "Y") @@ (1 :> "Z"), -1)
    /\ ApplyS(ApplyS(lhs, 0), 0) = Stabilizer(lhs.pauli, 1)

(***************************************************************************)
(* C9.  Self-squaring: for every Stabilizer s, combine(s, s) passes the    *)
(* phase assertion and yields the all-I string with sign +1.               *)
(***************************************************************************)
C9_SelfSquare ==
    With(mul_pauli_and_phase(lhs, lhs), LAMBDA m :
      /\ m.ok
      /\ m.sign = 1
      /\ \A k \in DOMAIN lhs.pauli : m.pauli[k] = "I")

\* lhs *= rhs has run on two equal operands -XYZ: lhs is now +III.
C9_Witness ==
    /\ status = "ok"
    /\ gates = <<Gate("imul", <<>>)>>
    /\ rhs = Stabilizer((0 :> "X") @@ (1 :> "Y") @@ (2 :> "Z"), -1)
    /\ lhs = Stabilizer((0 :> "I") @@ (1 :> "I") @@ (2 :> "I"), 1)

(***************************************************************************)
(* C10.  On one qubit the outcome is fixed, whatever the shot and the      *)
(* random draw: measure(0) alone counts only "0"; X(0), measure(0) counts  *)
(* only "1"; neither run fails.                                            *)
(***************************************************************************)
C10_OneQubitDeterministic ==
    /\ gates = IdentityScenario.gates =>
          status \notin Failures /\ DOMAIN counter \subseteq {"0"}
    /\ gates = FlipScenario.gates =>
          status \notin Failures /\ DOMAIN counter \subseteq {"1"}

\* Two shots of X(0), measure(0) have returned, both counted as "1".
C10_Witness ==
    /\ gates = FlipScenario.gates
    /\ status = "returned"
    /\ counter = ("1" :> 2)

(***************************************************************************)
(* C11.  The 2-qubit Grover demo circuit, run from the canonical tableau,  *)
(* never fails, calls random.random() in no measurement (both targets are  *)
(* measured on the deterministic path), ends every shot with both qubits   *)
(* measured as 1, and counts only "11".                                    *)
(***************************************************************************)
C11_Grover ==
    gates = GroverDemo.gates =>
       /\ status \notin Failures
       /\ drawn = 0
       /\ DOMAIN counter \subseteq {"11"}
       /\ status = "ok" /\ pc = Len(gates) => bits(measured, 0) = "11"

\* run(shots = 2) of the demo has returned, both shots counted as "11".
C11_Witness ==
    /\ gates = GroverDemo.gates
    /\ status = "returned"
    /\ kwargs.returns = <<"SHOTS">>
    /\ counter = ("11" :> 2)

(***************************************************************************)
(* C12.  A returns value other than 'shots' and 'stabilizers' makes run    *)
(* raise ValueError('Unknown return type.') before any shot: where run has *)
(* raised it, no tableau exists, no gate was dispatched, no shot was       *)
(* counted and random.random() was not called; and a run given such a      *)
(* value is never anywhere but at its call or at this error.               *)
(***************************************************************************)
KnownReturns == {<<>>, <<"shots">>, <<"stabilizers">>, <<"SHOTS">>, <<"STABILIZERS">>}

C12_UnknownReturns ==
    /\ status = "ValueError:136" =>
          /\ kwargs.returns \notin KnownReturns
          /\ stabilizers = <<>>
          /\ measured = <<>>
          /\ pc = 0
          /\ shot = 0
          /\ drawn = 0
          /\ counter = EmptyCounter
          /\ snapshots = <<>>
    /\ kwargs.returns \notin KnownReturns => status \in {"called", "ValueError:136"}

\* run(gates of the GHZ demo, returns = 'statevector', shots = 2) has raised.
C12_Witness ==
    /\ status = "ValueError:136"
    /\ gates = GHZDemo.gates
    /\ kwargs = [returns |-> <<"statevector">>, shots |-> <<2>>]

(***************************************************************************)
(* C13.  run executes exactly shots shots, 100 by default for 'shots' and  *)
(* 1 by default for 'stabilizers', and aggregates every one of them: the   *)
(* counts of the histogram sum to the shots completed and its keys are     *)
(* strings of n characters 0 or 1; the snapshot list has one entry per     *)
(* shot completed, and the entry a shot adds is its final tableau of n     *)
(* generators.  run returns only when all the shots are completed.         *)
(***************************************************************************)
RECURSIVE BitStrings(_)
BitStrings(n) ==
    IF n = 0 THEN {""} ELSE {b \o tail : b \in {"0", "1"}, tail \in BitStrings(n - 1)}

RECURSIVE Total(_, _)
Total(cnt, keys) ==
    IF keys = {} THEN 0
    ELSE With(CHOOSE key \in keys : TRUE, LAMBDA key : cnt[key] + Total(cnt, keys \ {key}))

Aggregated ==
    status \in {"run", "ok", "returned"} =>
       /\ kwargs.returns = <<"SHOTS">> =>
             /\ shots = (IF kwargs.shots = <<>> THEN 100 ELSE kwargs.shots[1])
             /\ Total(counter, DOMAIN counter) = shot
             /\ DOMAIN counter \subseteq BitStrings(n_qubits)
             /\ snapshots = <<>>
       /\ kwargs.returns = <<"STABILIZERS">> =>
             /\ shots = (IF kwargs.shots = <<>> THEN 1 ELSE kwargs.shots[1])
             /\ Len(snapshots) = shot
             /\ \A k \in DOMAIN snapshots :
                   /\ DOMAIN snapshots[k] = 0 .. n_qubits - 1
                   /\ \A j \in DOMAIN snapshots[k] :
                         snapshots[k][j] \in AllStabilizers(n_qubits)
             /\ counter = EmptyCounter
       /\ status = "returned" => shot = shots

SnapshotIsFinalTableau ==
    snapshots' # snapshots =>
       /\ pc = Len(gates)
       /\ snapshots' = Append(snapshots, stabilizers)

C13_ShotsAggregated == [] Aggregated /\ [][SnapshotIsFinalTableau]_vars

\* run of the GHZ demo with no shots given has returned: 100 shots counted,
\* half of them "000".
C13_Witness ==
    /\ status = "returned"
    /\ gates = GHZDemo.gates
    /\ kwargs = [returns |-> <<"SHOTS">>, shots |-> <<>>]
    /\ DOMAIN counter = {"000", "111"}
    /\ counter["000"] = 50
    /\ counter["111"] = 50

(***************************************************************************)
(* C14.  The deterministic measurement leaves the caller's tableau as it   *)
(* was: on every reachable tableau and every qubit idx at which no row     *)
(* holds X or Y, when _meas_all_comm returns a value every row has the     *)
(* symbols and the sign it had before the call, in the same order.         *)
(* Violated by the source, whose working copy shares the row objects.      *)
(***************************************************************************)
C14_MeasureKeepsRows ==
    status = "ok" =>
       \A idx \in DOMAIN stabilizers :
          rows_with(stabilizers, range(n_qubits), idx, {"X", "Y"}) = <<>> =>
             With(_meas_all_comm(idx, stabilizers), LAMBDA m :
               m.err = "ok" => m.sts = stabilizers)

(***************************************************************************)
(* C15.  Random-collapse measurement of qubit idx, on every reachable      *)
(* tableau with a row holding X or Y at idx and for every draw r, where it *)
(* completes: the first such row g0 is the pivot; every other row with X   *)
(* or Y at idx becomes its product with g0 as g0 was before the call; rows *)
(* with I or Z at idx are unchanged; g0 becomes the canonical Z-at-idx     *)
(* pattern, with sign +1 and result false when r < 0.5, with sign -1 and   *)
(* result true otherwise; afterwards no row holds X or Y at idx and the    *)
(* tableau still has n rows.                                               *)
(***************************************************************************)
Product(a, b) ==
    Stabilizer(mul_pauli_and_phase(a, b).pauli, mul_pauli_and_phase(a, b).sign)

Anticommuting(sts, idx) == {k \in DOMAIN sts : sts[k].pauli[idx] \in {"X", "Y"}}

First(S) == CHOOSE k \in S : \A j \in S : k <= j

C15_RandomCollapse ==
    status = "ok" =>
       \A idx \in DOMAIN stabilizers, r \in RandomDraws :
          Anticommuting(stabilizers, idx) # {} =>
             With(measure_at(idx, r, stabilizers), LAMBDA m :
               m.err = "ok" =>
                  /\ m.drawn = 1
                  /\ m.meas = ~(r < 5)
                  /\ DOMAIN m.sts = DOMAIN stabilizers
                  /\ Anticommuting(m.sts, idx) = {}
                  /\ \A k \in DOMAIN stabilizers :
                        m.sts[k] =
                          IF k = First(Anticommuting(stabilizers, idx))
                          THEN Stabilizer([q \in 0 .. n_qubits - 1 |->
                                              IF q = idx THEN "Z" ELSE "I"],
                                          IF r < 5 THEN 1 ELSE -1)
                          ELSE IF k \in Anticommuting(stabilizers, idx)
                          THEN Product(stabilizers[k],
                                       stabilizers[First(Anticommuting(stabilizers, idx))])
                          ELSE stabilizers[k])

\* h[0], h[1], cx[0, 1] gave +XX, +IX; the measurement of qubit 1 with a
\* draw of 0.5 or more took row 0 as the pivot: row 1 is IX times XX, row 0
\* is -IZ and the result is true.
C15_Witness ==
    /\ status = "ok"
    /\ n_qubits = 2
    /\ pc = 4
    /\ drawn = 1
    /\ measured = (0 :> FALSE) @@ (1 :> TRUE)
    /\ stabilizers = (0 :> Stabilizer((0 :> "I") @@ (1 :> "Z"), -1))
                      @@ (1 :> Stabilizer((0 :> "X") @@ (1 :> "I"), 1))

(***************************************************************************)
(* C16.  The value of a deterministic measurement is the one the           *)
(* stabilizer group fixes: on every reachable tableau and every qubit idx  *)
(* at which no row holds X or Y, where _meas_all_comm returns a value, the *)
(* value is true exactly when -Z_idx, and false exactly when +Z_idx, is    *)
(* the product of a subset of the rows as they were before the call.  The  *)
(* products are taken in the Pauli group, with the phase as a power of i.  *)
(***************************************************************************)
\* a.b = i^PowerOfI(a, b) times a symbol, for single-qubit Paulis.
PowerOfI(a, b) ==
    IF <<a, b>> \in {<<"X", "Y">>, <<"Y", "Z">>, <<"Z", "X">>} THEN 1
    ELSE IF <<a, b>> \in {<<"Y", "X">>, <<"Z", "Y">>, <<"X", "Z">>} THEN 3
    ELSE 0

RECURSIVE PowerOfISum(_, _, _)
PowerOfISum(p, q, k) ==
    IF k \notin DOMAIN p THEN 0
    ELSE PowerOfI(p[k], q[k]) + PowerOfISum(p, q, k + 1)

\* The product of two Pauli operators [pauli, power]: i^power times the string.
PauliTimes(a, b) ==
    [pauli |-> [k \in DOMAIN a.pauli |->
                  Symbol(XBit(a.pauli[k]) # XBit(b.pauli[k]),
                         ZBit(a.pauli[k]) # ZBit(b.pauli[k]))],
     power |-> (a.power + b.power + PowerOfISum(a.pauli, b.pauli, 0)) % 4]

RECURSIVE SubsetProduct(_, _, _)
\* The product, in row order, of the rows of S from row k on.
SubsetProduct(sts, S, k) ==
    IF k \notin DOMAIN sts
    THEN [pauli |-> [q \in DOMAIN sts |-> "I"], power |-> 0]
    ELSE IF k \in S
    THEN PauliTimes([pauli |-> sts[k].pauli, power |-> IF sts[k].sign = 1 THEN 0 ELSE 2],
                    SubsetProduct(sts, S, k + 1))
    ELSE SubsetProduct(sts, S, k + 1)

\* The signed Pauli group the rows generate.
Group(sts) == {SubsetProduct(sts, S, 0) : S \in SUBSET (DOMAIN sts)}

SignedZ(n, idx, sign) ==
    [pauli |-> [q \in 0 .. n - 1 |-> IF q = idx THEN "Z" ELSE "I"],
     power |-> IF sign = 1 THEN 0 ELSE 2]

C16_DeterministicValue ==
    status = "ok" =>
       \A idx \in DOMAIN stabilizers :
          Anticommuting(stabilizers, idx) = {} =>
             With(_meas_all_comm(idx, stabilizers), LAMBDA m :
               m.err = "ok" =>
                  /\ m.meas <=> SignedZ(n_qubits, idx, -1) \in Group(stabilizers)
                  /\ ~m.meas <=> SignedZ(n_qubits, idx, 1) \in Group(stabilizers))

\* x[1], cx[1, 0] gave +ZZ, -IZ; the measurement of qubit 0 went through the
\* elimination, made row 1 the product -ZI and returned true.
C16_Witness ==
    /\ status = "ok"
    /\ n_qubits = 2
    /\ pc = 3
    /\ drawn = 0
    /\ measured = (0 :> TRUE) @@ (1 :> FALSE)
    /\ stabilizers = (0 :> Stabilizer((0 :> "Z") @@ (1 :> "Z"), 1))
                      @@ (1 :> Stabilizer((0 :> "Z") @@ (1 :> "I"), -1))

(***************************************************************************)
(* C17.  A deterministic measurement does not change the simulated state:  *)
(* on every reachable tableau and every qubit idx at which no row holds X  *)
(* or Y, where _meas_all_comm returns a value, the signed Pauli group      *)
(* generated by the rows after the call is the group generated by the rows *)
(* before it, also where the elimination has rewritten rows.               *)
(***************************************************************************)
C17_GroupPreserved ==
    status = "ok" =>
       \A idx \in DOMAIN stabilizers :
          Anticommuting(stabilizers, idx) = {} =>
             With(_meas_all_comm(idx, stabilizers), LAMBDA m :
               m.err = "ok" => Group(m.sts) = Group(stabilizers))

\* cx[1, 0] gave +ZZ, +IZ; the measurement of qubit 0 rewrote row 1 to +ZI:
\* other rows, the same group.
C17_Witness ==
    /\ status = "ok"
    /\ n_qubits = 2
    /\ pc = 2
    /\ drawn = 0
    /\ stabilizers = (0 :> Stabilizer((0 :> "Z") @@ (1 :> "Z"), 1))
                      @@ (1 :> Stabilizer((0 :> "Z") @@ (1 :> "I"), 1))
    /\ Group(stabilizers) = Group(_preprocess_run(2).stabilizers)

(***************************************************************************)
(* C18.  The Pauli multiplication table gives, for the ordered pair        *)
(* (a, b), the product symbol and the phase contribution of a.b: I.x =     *)
(* x.I = x and X.X = Y.Y = Z.Z = I with phase 0; X.Y = Z +1, Y.X = Z -1,   *)
(* Y.Z = X +1, Z.Y = X -1, Z.X = Y +1, X.Z = Y -1.  Checked on the pairs   *)
(* of symbols the two operands hold at each position.                      *)
(* Violated by the source, whose six non-zero phases are the opposite.     *)
(***************************************************************************)
StatedProduct(a, b) ==
    CASE a = "I" -> <<b, 0>>
      [] b = "I" -> <<a, 0>>
      [] a = b -> <<"I", 0>>
      [] a = "X" /\ b = "Y" -> <<"Z", 1>>
      [] a = "Y" /\ b = "X" -> <<"Z", -1>>
      [] a = "Y" /\ b = "Z" -> <<"X", 1>>
      [] a = "Z" /\ b = "Y" -> <<"X", -1>>
      [] a = "Z" /\ b = "X" -> <<"Y", 1>>
      [] a = "X" /\ b = "Z" -> <<"Y", -1>>

C18_MulTable ==
    \A k \in DOMAIN lhs.pauli :
       _mul(lhs.pauli[k], rhs.pauli[k]) = StatedProduct(lhs.pauli[k], rhs.pauli[k])

(***************************************************************************)
(* C19.  A single-qubit gate on target idx changes, in each row, only the  *)
(* symbol at idx and the sign: on every reachable tableau, for each of x,  *)
(* y, z, h, s, sdg and every idx, the tableau after the gate has the same  *)
(* rows in the same order, a row with I at idx is the same row, and the    *)
(* symbols at the other indices are the same; and the step of such a gate  *)
(* leaves the measured array as it is.                                     *)
(***************************************************************************)
SingleGateFrame ==
    status = "ok" =>
       \A lowername \in GateNames, idx \in DOMAIN stabilizers :
          With(_single_qubit_gate(lowername, <<idx>>, stabilizers), LAMBDA after :
            /\ DOMAIN after = DOMAIN stabilizers
            /\ \A k \in DOMAIN stabilizers :
                  /\ stabilizers[k].pauli[idx] = "I" => after[k] = stabilizers[k]
                  /\ after[k].sign \in {stabilizers[k].sign, -stabilizers[k].sign}
                  /\ DOMAIN after[k].pauli = DOMAIN stabilizers[k].pauli
                  /\ \A q \in DOMAIN stabilizers[k].pauli :
                        q # idx => after[k].pauli[q] = stabilizers[k].pauli[q])

SingleGateStep == GateX \/ GateY \/ GateZ \/ GateH \/ GateS \/ GateSdg

C19_SingleGateFrame ==
    [] SingleGateFrame /\ [][SingleGateStep => measured' = measured]_vars

\* measure[1], then y[0] on three qubits: row 0 is -ZII, rows 1 and 2, with
\* I at index 0, are the canonical ones, and qubit 1 is still marked as
\* measured with the value it had.
C19_Witness ==
    /\ status = "ok"
    /\ n_qubits = 3
    /\ pc = 2
    /\ stabilizers = [_preprocess_run(3).stabilizers EXCEPT ![0].sign = -1]
    /\ measured = _preprocess_run(3).measured

====
